---- MODULE Spec2Model ----
(***************************************************************************)
(* Model of Videos.get_videos (src/backend/downloadvids/main.py): a        *)
(* ThreadPoolExecutor runs download_videos once per entry of video_ids.   *)
(* Each task is modelled statement group by statement group; the external *)
(* calls (yt-dlp probe and download, Azure upload_blob, os.* calls) return *)
(* or raise nondeterministically.                                          *)
(***************************************************************************)
EXTENDS Integers, Sequences, FiniteSets, TLC

\* ---------------------------------------------------------------- bounds
\* number of entries of video_ids (the csv column)
NumIds == 2

\* largest max_workers tried
MaxWorkers == 2

\* `if successful_download >= 1000` (main.py:128); the literal is scaled down
\* so that the cutoff is reached within NumIds identifiers.
Cutoff == 1

\* identifier values the csv column may hold (duplicates are possible)
IdVals == {"a", "b"}

\* file names yt-dlp may write into a staging folder
Files == {"f1", "f2"}

\* self.language (main.py:55), the preferred subtitle languages
language == {"en"}

\* subtitle language lists extract_info may report: one with a preferred
\* language, one without
SubtitleSets == {{"en"}, {"fr"}}

Tasks == 1..NumIds

VARIABLES
    video_ids,      \* the submitted list (main.py:68)
    max_workers,    \* pool size (main.py:66,149)
    pc,             \* position of each task in download_videos
    failed_ids,     \* main.py:70
    completed,      \* main.py:72
    successful_download, \* main.py:73
    lock,           \* main.py:74: 0 = free, else the task holding it
    stop_event,     \* main.py:75
    folder,         \* per identifier: does unique_folder exist
    files,          \* per identifier: file name -> "absent" | "staged" | "attempted"
    blobs,          \* blob names uploaded so far, <<video_id, file_name>>
    listing,        \* per task: names of the current os.listdir loop not yet visited
    main,           \* position of get_videos' own thread
    hist,           \* per task: what happened to it (read by the properties only)
    deletedUnattempted, \* a file was removed with no upload attempt since it was written
    leftEarly       \* the main thread left the as_completed loop with calls unfinished

vars == <<video_ids, max_workers, pc, failed_ids, completed, successful_download,
          lock, stop_event, folder, files, blobs, listing, main, hist,
          deletedUnattempted, leftEarly>>

\* ------------------------------------------------------------- helpers
\* late:  the stop event was already set when a worker took the call
\* probed: extract_info returned; subs: the subtitle languages it reported
\* fault: the call that raised: "none" | "makedirs" | "probe" | "fetch" | "listdir"
\*        | "put" | "remove" | "rmdir" (purge after upload) | "cleanup" (no-match rmdir)
\* succ:  the task executed successful_download += 1
NoHist == [late |-> FALSE, probed |-> FALSE, subs |-> {}, fault |-> "none",
           succ |-> FALSE]

Id(i) == video_ids[i]

\* tasks a worker thread is currently executing
InFlight == {i \in Tasks : pc[i] \notin {"queued", "done"}}

\* regular files currently in the folder of identifier v (os.listdir + isfile)
Present(v) == {f \in Files : files[v][f] # "absent"}

AllDone == \A i \in Tasks : pc[i] = "done"

Init ==
    \* every list is one of these up to renaming the identifiers
    /\ video_ids \in {ids \in [Tasks -> IdVals] : ids[1] = "a"}
    /\ max_workers \in 1..MaxWorkers
    /\ pc = [i \in Tasks |-> "queued"]
    /\ failed_ids = <<>>
    /\ completed = 0
    /\ successful_download = 0
    /\ lock = 0
    /\ stop_event = FALSE
    /\ folder = [v \in IdVals |-> FALSE]
    /\ files = [v \in IdVals |-> [f \in Files |-> "absent"]]
    /\ blobs = {}
    /\ listing = [i \in Tasks |-> {}]
    /\ main = "iterating"
    /\ hist = [i \in Tasks |-> NoHist]
    /\ deletedUnattempted = FALSE
    /\ leftEarly = FALSE

\* mutant: the early-exit check is missing
StopObserved_Mut(s) == FALSE

\* `if stop_event.is_set()` (main.py:78)
StopObserved(s) == s

\* mutant: the failure is logged but not appended
RecordFailure_Mut(lst, v) == lst

\* `failed_ids.append(video_id)` (main.py:135,143)
RecordFailure(lst, v) == Append(lst, v)

\* mutant: the cutoff test is off by one
SetOnCutoff_Mut(s, n) == s \/ n > Cutoff

\* `if successful_download >= 1000: stop_event.set()` (main.py:128-130)
SetOnCutoff(s, n) == s \/ n >= Cutoff

\* mutant: any subtitle track counts, preferred or not
HasPreferred_Mut(subs) == subs # {}

\* `any(lang in subs for lang in self.language)` (main.py:98)
HasPreferred(subs) == \E lang \in language : lang \in subs

\* mutant: the folder prefix is left out of the blob name
BlobName_Mut(v, f) == <<f>>

\* `blob_name = f"{video_id}/{file_name}"` (main.py:108)
BlobName(v, f) == <<v, "/", f>>

\* mutant: the handler does not catch the exception, only the finally block runs
Except_Mut(i, what) ==
    /\ failed_ids' = failed_ids
    /\ pc' = [pc EXCEPT ![i] = "finally"]
    /\ hist' = [hist EXCEPT ![i].fault = what]

\* An exception raised inside the try block (main.py:94) is caught by
\* `except Exception` (main.py:141-143), which appends the identifier; the
\* finally block follows.  Raising touches no shared state, so the raise and
\* the handler are one step.
Except(i, what) ==
    /\ failed_ids' = RecordFailure(failed_ids, Id(i))
    /\ pc' = [pc EXCEPT ![i] = "finally"]
    /\ hist' = [hist EXCEPT ![i].fault = what]

counters == <<completed, successful_download, lock, stop_event>>
disk == <<folder, files, blobs>>
pool == <<video_ids, max_workers, main, deletedUnattempted, leftEarly>>

\* mutant: one thread per call, the pool size is not respected
Dispatch_Mut(i) ==
    /\ pc[i] = "queued"
    /\ \A j \in Tasks : j < i => pc[j] # "queued"
    /\ pc' = [pc EXCEPT ![i] = "entry"]
    /\ hist' = [hist EXCEPT ![i].late = stop_event]
    /\ UNCHANGED <<failed_ids, counters, disk, pool, listing>>

\* A worker thread takes the next queued call from the executor's FIFO queue
\* (main.py:149-150).
Dispatch(i) ==
    /\ pc[i] = "queued"
    /\ \A j \in Tasks : j < i => pc[j] # "queued"
    /\ Cardinality(InFlight) < max_workers
    /\ pc' = [pc EXCEPT ![i] = "entry"]
    /\ hist' = [hist EXCEPT ![i].late = stop_event]
    /\ UNCHANGED <<failed_ids, counters, disk, pool, listing>>

\* main.py:78-79: the stop event is set, return before the try block.
EarlyReturn(i) ==
    /\ pc[i] = "entry"
    /\ StopObserved(stop_event)
    /\ pc' = [pc EXCEPT ![i] = "done"]
    /\ UNCHANGED <<failed_ids, counters, disk, pool, listing, hist>>

\* main.py:82-98: os.makedirs(unique_folder, exist_ok=True) and the YoutubeDL
\* context are outside the try block, a fault there leaves the call; then
\* extract_info and the language test, which touch no shared state.
OpenAndProbe(i) ==
    /\ pc[i] = "entry"
    /\ ~StopObserved(stop_event)
    /\ \/ /\ pc' = [pc EXCEPT ![i] = "done"]
          /\ hist' = [hist EXCEPT ![i].fault = "makedirs"]
          /\ UNCHANGED <<folder, failed_ids>>
       \/ /\ folder' = [folder EXCEPT ![Id(i)] = TRUE]
          /\ \/ \E subs \in SubtitleSets :
                   /\ pc' = [pc EXCEPT ![i] = IF HasPreferred(subs) THEN "fetch"
                                                                   ELSE "nomatch"]
                   /\ hist' = [hist EXCEPT ![i].probed = TRUE, ![i].subs = subs]
                   /\ UNCHANGED failed_ids
             \/ Except(i, "probe")
    /\ UNCHANGED <<counters, files, blobs, pool, listing>>

\* main.py:100-101: ydl.download writes its artifacts under unique_folder
\* (outtmpl, main.py:85), replacing files of the same name, or raises.
Fetch(i) ==
    /\ pc[i] = "fetch"
    /\ \/ /\ \E S \in (SUBSET Files) \ {{}} :
                files' = [files EXCEPT ![Id(i)] =
                             [f \in Files |-> IF f \in S THEN "staged" ELSE @[f]]]
          /\ folder' = [folder EXCEPT ![Id(i)] = TRUE]
          /\ pc' = [pc EXCEPT ![i] = "list_upload"]
          /\ UNCHANGED <<hist, failed_ids>>
       \/ /\ Except(i, "fetch")
          /\ UNCHANGED <<files, folder>>
    /\ UNCHANGED <<counters, blobs, pool, listing>>

\* main.py:104: os.listdir(unique_folder) of the upload loop.
ListForUpload(i) ==
    /\ pc[i] = "list_upload"
    /\ IF folder[Id(i)]
         THEN /\ listing' = [listing EXCEPT ![i] = Present(Id(i))]
              /\ pc' = [pc EXCEPT ![i] = "upload"]
              /\ UNCHANGED <<hist, failed_ids>>
         ELSE /\ Except(i, "listdir")
              /\ UNCHANGED listing
    /\ UNCHANGED <<counters, disk, pool>>

\* main.py:105-112: one iteration of the upload loop.
UploadFile(i, f) ==
    /\ pc[i] = "upload"
    /\ f \in listing[i]
    /\ IF files[Id(i)][f] = "absent"
         THEN /\ listing' = [listing EXCEPT ![i] = @ \ {f}]
              /\ UNCHANGED <<files, blobs, pc, hist, failed_ids>>
         ELSE /\ files' = [files EXCEPT ![Id(i)][f] = "attempted"]
              /\ \/ /\ blobs' = blobs \cup {BlobName(Id(i), f)}
                    /\ listing' = [listing EXCEPT ![i] = @ \ {f}]
                    /\ UNCHANGED <<pc, hist, failed_ids>>
                 \/ /\ Except(i, "put")
                    /\ listing' = [listing EXCEPT ![i] = {}]
                    /\ UNCHANGED blobs
    /\ UNCHANGED <<counters, folder, pool>>

\* main.py:115: os.listdir(unique_folder) of the delete loop.
ListForDelete(i) ==
    /\ pc[i] = "upload"
    /\ listing[i] = {}
    /\ IF folder[Id(i)]
         THEN /\ listing' = [listing EXCEPT ![i] = Present(Id(i))]
              /\ pc' = [pc EXCEPT ![i] = "delete"]
              /\ UNCHANGED <<hist, failed_ids>>
         ELSE /\ Except(i, "listdir")
              /\ UNCHANGED listing
    /\ UNCHANGED <<counters, disk, pool>>

\* main.py:116-119: one iteration of the delete loop.
DeleteFile(i, f) ==
    /\ pc[i] = "delete"
    /\ f \in listing[i]
    /\ IF files[Id(i)][f] = "absent"
         THEN /\ listing' = [listing EXCEPT ![i] = @ \ {f}]
              /\ UNCHANGED <<files, pc, hist, failed_ids, deletedUnattempted>>
         ELSE \/ /\ files' = [files EXCEPT ![Id(i)][f] = "absent"]
                 /\ listing' = [listing EXCEPT ![i] = @ \ {f}]
                 /\ deletedUnattempted' =
                        (deletedUnattempted \/ files[Id(i)][f] = "staged")
                 /\ UNCHANGED <<pc, hist, failed_ids>>
              \/ /\ Except(i, "remove")
                 /\ listing' = [listing EXCEPT ![i] = {}]
                 /\ UNCHANGED <<files, deletedUnattempted>>
    /\ UNCHANGED <<counters, folder, blobs, video_ids, max_workers, main, leftEarly>>

\* os.listdir(unique_folder) then os.rmdir(unique_folder) if it is empty
\* (main.py:122-124 and 137-139); ok = neither call raised.
RemoveIfEmpty(i, ok) ==
    /\ ok => folder[Id(i)]
    /\ folder' = IF ok /\ Present(Id(i)) = {}
                   THEN [folder EXCEPT ![Id(i)] = FALSE]
                   ELSE folder

\* main.py:121-124: remove the folder if it is empty.
RemoveFolder(i) ==
    /\ pc[i] = "delete"
    /\ listing[i] = {}
    /\ \/ /\ RemoveIfEmpty(i, TRUE)
          /\ pc' = [pc EXCEPT ![i] = "account"]
          /\ UNCHANGED <<hist, failed_ids>>
       \/ /\ RemoveIfEmpty(i, FALSE)
          /\ Except(i, "rmdir")
    /\ UNCHANGED <<counters, files, blobs, pool, listing>>

\* mutant: the success path counts the call as completed too, ahead of finally
AccountSuccess_Mut(i) ==
    /\ pc[i] = "account"
    /\ lock = 0
    /\ lock' = i
    /\ successful_download' = successful_download + 1
    /\ completed' = completed + 1
    /\ pc' = [pc EXCEPT ![i] = "cutoff"]
    /\ hist' = [hist EXCEPT ![i].succ = TRUE]
    /\ UNCHANGED <<failed_ids, stop_event, disk, pool, listing>>

\* main.py:126-127: `with lock: successful_download += 1`
AccountSuccess(i) ==
    /\ pc[i] = "account"
    /\ lock = 0
    /\ lock' = i
    /\ successful_download' = successful_download + 1
    /\ pc' = [pc EXCEPT ![i] = "cutoff"]
    /\ hist' = [hist EXCEPT ![i].succ = TRUE]
    /\ UNCHANGED <<failed_ids, completed, stop_event, disk, pool, listing>>

\* mutant: the return inside the locked block leaves the lock held
CheckCutoff_Mut(i) ==
    /\ pc[i] = "cutoff"
    /\ lock = i
    /\ stop_event' = SetOnCutoff(stop_event, successful_download)
    /\ lock' = IF stop_event' THEN i ELSE 0
    /\ pc' = [pc EXCEPT ![i] = "finally"]
    /\ UNCHANGED <<failed_ids, completed, successful_download, disk, pool,
                   listing, hist>>

\* main.py:128-131: the cutoff test, still holding the lock; leaving the
\* with block (by return or by falling through) releases it, and the finally
\* block follows in both cases.
CheckCutoff(i) ==
    /\ pc[i] = "cutoff"
    /\ lock = i
    /\ stop_event' = SetOnCutoff(stop_event, successful_download)
    /\ lock' = 0
    /\ pc' = [pc EXCEPT ![i] = "finally"]
    /\ UNCHANGED <<failed_ids, completed, successful_download, disk, pool,
                   listing, hist>>

\* main.py:133-135: no preferred language among the subtitles.
RecordNoMatch(i) ==
    /\ pc[i] = "nomatch"
    /\ failed_ids' = RecordFailure(failed_ids, Id(i))
    /\ pc' = [pc EXCEPT ![i] = "nomatch_rm"]
    /\ UNCHANGED <<hist, counters, disk, pool, listing>>

\* main.py:136-139: remove the folder if it is empty, still inside the try block.
NoMatchCleanup(i) ==
    /\ pc[i] = "nomatch_rm"
    /\ \/ /\ RemoveIfEmpty(i, TRUE)
          /\ pc' = [pc EXCEPT ![i] = "finally"]
          /\ UNCHANGED <<hist, failed_ids>>
       \/ /\ RemoveIfEmpty(i, FALSE)
          /\ Except(i, "cleanup")
    /\ UNCHANGED <<counters, files, blobs, pool, listing>>

\* main.py:144-147: finally: with lock: completed += 1
Finally(i) ==
    /\ pc[i] = "finally"
    /\ lock = 0
    /\ completed' = completed + 1
    /\ pc' = [pc EXCEPT ![i] = "done"]
    /\ UNCHANGED <<hist, failed_ids, successful_download, lock, stop_event, disk,
                   pool, listing>>

\* main.py:152-154: as_completed hands the finished futures to the main thread
\* one by one; the loop is left by `break` when one is handed over while the
\* stop event is set, or after the last one.  How many futures the main thread
\* has already consumed is not observable, and it may lag arbitrarily behind.
MainLeaveLoop ==
    /\ main = "iterating"
    /\ \/ stop_event /\ \E i \in Tasks : pc[i] = "done"
       \/ AllDone
    /\ main' = "joining"
    /\ leftEarly' = ~AllDone
    /\ UNCHANGED <<video_ids, max_workers, failed_ids, counters, disk, pc, listing,
                   hist, deletedUnattempted>>

\* mutant: the executor is shut down without waiting (shutdown(wait=False))
MainReturn_Mut ==
    /\ main = "joining"
    /\ main' = "returned"
    /\ UNCHANGED <<video_ids, max_workers, failed_ids, counters, disk, pc, listing,
                   hist, deletedUnattempted, leftEarly>>

\* main.py:149,156-157: leaving the `with ThreadPoolExecutor` block waits for
\* every submitted call (shutdown(wait=True)); then get_videos returns.
MainReturn ==
    /\ main = "joining"
    /\ AllDone
    /\ main' = "returned"
    /\ UNCHANGED <<video_ids, max_workers, failed_ids, counters, disk, pc, listing,
                   hist, deletedUnattempted, leftEarly>>

Step(i) ==
    \/ Dispatch(i)
    \/ EarlyReturn(i)
    \/ OpenAndProbe(i)
    \/ Fetch(i)
    \/ ListForUpload(i)
    \/ \E f \in Files : UploadFile(i, f)
    \/ ListForDelete(i)
    \/ \E f \in Files : DeleteFile(i, f)
    \/ RemoveFolder(i)
    \/ AccountSuccess(i)
    \/ CheckCutoff(i)
    \/ RecordNoMatch(i)
    \/ NoMatchCleanup(i)
    \/ Finally(i)

Next ==
    \/ \E i \in Tasks : Step(i)
    \/ MainLeaveLoop
    \/ MainReturn

Spec == Init /\ [][Next]_vars

\* Every external call returns or raises and the threads are scheduled: as
\* long as some thread can take a step, a step is eventually taken.  (Fairness
\* per thread is not needed, no step can be repeated.)
FairSpec == Spec /\ WF_vars(Next)

\* ------------------------------------------------------- vocabulary
\* get_videos has returned (main.py:157)
RunEnd == main = "returned"

\* number of entries of failed_ids that name identifier v
EntriesOf(v) == Cardinality({k \in 1..Len(failed_ids) : failed_ids[k] = v})

\* the task got past line 79 and into the try block
Entered(i) == hist[i].probed \/ hist[i].fault \notin {"none", "makedirs"}

\* an exception of the task was caught by `except Exception`
Caught(i) == hist[i].fault \notin {"none", "makedirs"}

NoFault == \A i \in Tasks : hist[i].fault = "none"

\* ------------------------------------------------------------ claims

\* C1: when the run has settled, successful + |failure list| = completed:
\* every completed identifier is accounted exactly once.
C1_AccountedOnce ==
    RunEnd => successful_download + Len(failed_ids) = completed

\* C2: every submitted identifier contributes to completed exactly once, also
\* when its call starts after the stop event is set: at run end completed is
\* the number of identifiers submitted.  Stated for the runs in which no call
\* raises, where the only path left besides success and no-match is the skip.
C2_AllCompleted ==
    (RunEnd /\ NoFault) => completed = NumIds

\* C3: a call that a worker takes after the stop event is set never gets past
\* the early-exit check: it never probes, fetches or uploads.
C3_NoLateWork ==
    \A i \in Tasks :
        hist[i].late => /\ pc[i] \in {"entry", "done"}
                        /\ ~Entered(i)
                        /\ ~hist[i].succ

C3_Witness ==
    \E i \in Tasks : hist[i].late /\ pc[i] = "done"

\* C4: at run end an identifier is in the failure list iff its pipeline did not
\* complete a successful upload, skipped identifiers included: per identifier,
\* the list holds one entry for each of its calls that did not succeed and none
\* for those that did.  Stated for the runs in which no call raises.
C4_FailedIffNotSuccessful ==
    (RunEnd /\ NoFault) =>
        \A v \in IdVals :
            EntriesOf(v) = Cardinality({i \in Tasks : Id(i) = v /\ ~hist[i].succ})

\* C5: when put fails for a staged file, the identifier is recorded as failed,
\* does not count as successful, and the purge still runs: its staged files
\* are deleted and the then empty folder is removed.
C5_PurgeAfterFailedPut ==
    \A i \in Tasks :
        (pc[i] = "done" /\ hist[i].fault = "put") =>
            /\ ~hist[i].succ
            /\ EntriesOf(Id(i)) >= 1
            /\ Present(Id(i)) = {}
            /\ ~folder[Id(i)]

\* C6: no staged file is ever deleted before an upload attempt was made for it.
C6_UploadBeforeDelete == ~deletedUnattempted

\* C7: completed is never ahead of the recorded outcomes:
\* completed <= successful + |failure list| in every reachable state.
C7_OutcomeBeforeCompleted ==
    completed <= successful_download + Len(failed_ids)

C7_Witness ==
    /\ completed = 2
    /\ successful_download = 1
    /\ Len(failed_ids) = 1

\* C8: in every reachable state successful never exceeds completed.
C8_SuccessfulLeCompleted == successful_download <= completed

\* C9: the stop event is unset while successful is below the cutoff, is set in
\* the critical section in which successful reaches the cutoff (outside that
\* section it is set exactly when successful >= cutoff), and is never cleared.
C9_StopSignal ==
    /\ [](stop_event => successful_download >= Cutoff)
    /\ []((successful_download >= Cutoff /\ ~stop_event) =>
              (lock # 0 /\ pc[lock] = "cutoff"))
    /\ [][stop_event => stop_event']_vars

C9_Witness ==
    stop_event /\ lock = 0 /\ successful_download >= Cutoff

NoneMatching(i) == hist[i].probed /\ hist[i].subs \cap language = {}

\* C12: an identifier whose probe reports none of the preferred languages is
\* recorded in the failure list and counted in completed, and no fetch and no
\* upload is ever attempted for it.
C12_NoMatchNoFetch ==
    /\ \A i \in Tasks :
          NoneMatching(i) => /\ pc[i] \in {"nomatch", "nomatch_rm", "finally", "done"}
                             /\ ~hist[i].succ
    /\ \A v \in IdVals :
          EntriesOf(v) >= Cardinality({i \in Tasks : /\ Id(i) = v
                                                     /\ NoneMatching(i)
                                                     /\ pc[i] # "nomatch"})
    /\ completed >= Cardinality({i \in Tasks : NoneMatching(i) /\ pc[i] = "done"})

C12_Witness ==
    \E i \in Tasks :
        /\ NoneMatching(i)
        /\ pc[i] = "done"
        /\ EntriesOf(Id(i)) = 1
        /\ blobs = {}

\* C13: accounting follows the upload outcome, not the purge outcome: a call
\* whose uploads all succeeded and whose os.remove or os.rmdir then raised is
\* still counted in successful.
C13_PurgeFaultStillSuccess ==
    \A i \in Tasks :
        (pc[i] = "done" /\ hist[i].fault \in {"remove", "rmdir"}) => hist[i].succ

\* positions at which a call has its staging folder open: from os.makedirs to
\* its last os.listdir / os.rmdir
UsingFolder == {"fetch", "list_upload", "upload", "delete", "nomatch", "nomatch_rm"}

\* C14: no two workers are ever in the same staging folder, also when the
\* list holds the same identifier twice.
C14_FolderExclusive ==
    \A i, j \in Tasks :
        (i # j /\ Id(i) = Id(j)) => ~(pc[i] \in UsingFolder /\ pc[j] \in UsingFolder)

\* C15: every append to the failure list is made by a worker holding the lock.
C15_AppendUnderLock ==
    [][Len(failed_ids') > Len(failed_ids) => (lock # 0 /\ pc'[lock] # pc[lock])]_vars

\* C16: completed never exceeds the number of identifiers submitted.
C16_CompletedLeTotal == completed <= Len(video_ids)

C16_Witness ==
    /\ completed = Len(video_ids)
    /\ \E i \in Tasks : hist[i].succ

\* C17: the blob name of every upload is the identifier, one "/", and the
\* file name, and what is uploaded under it is the file of that name in that
\* identifier's folder (the file the upload step reads).
C17_BlobName ==
    [][\A key \in blobs' \ blobs :
          \E i \in Tasks, f \in Files :
              /\ key = <<Id(i), "/", f>>
              /\ pc[i] = "upload"
              /\ f \in listing[i]
              /\ files[Id(i)][f] # "absent"
              /\ files'[Id(i)][f] = "attempted"]_vars

C17_Witness ==
    /\ <<"a", "/", "f1">> \in blobs
    /\ <<"a", "/", "f2">> \in blobs

\* C18: no fetch begins while the stop event is set.
C18_NoFetchAfterStop ==
    [][\A i \in Tasks : (pc[i] = "fetch" /\ pc'[i] # "fetch") => ~stop_event]_vars

C20_Terminates ==
    /\ <>(/\ RunEnd
          /\ lock = 0
          /\ \A i \in Tasks : hist[i].succ => pc[i] = "done"
          /\ completed = Cardinality({i \in Tasks : Entered(i)}))
    /\ [][\A i \in Tasks :
            (pc[i] = "cutoff" /\ pc'[i] = "finally") => (lock = i /\ lock' = 0)]_vars

C20_Witness ==
    /\ RunEnd
    /\ stop_event
    /\ \E i \in Tasks : hist[i].succ /\ pc[i] = "done"
    /\ completed = Cardinality({i \in Tasks : Entered(i)})

====
